---- MODULE Spec2Model ----
(***************************************************************************)
(* A model of the plotting scripts of ICBO-Cloud-Scheduling:               *)
(*   scripts/plot_convergence.py        (ConvergencePlotter, main)         *)
(*   scripts/plot_sensitivity.py        (SensitivityPlotter, main)         *)
(*   scripts/plot_sensitivity_simple.py (plot_sensitivity_heatmap, main)   *)
(*   scripts/plot_paper_figures.py      (main)                             *)
(* One run of one script is one behaviour: Init draws the script and its   *)
(* inputs (the files of the working directory and their content), and the  *)
(* actions are the steps of that script's main, in program order.          *)
(* Strings whose characters the code inspects (file stems) are sequences   *)
(* of one-character strings; lambda values are held in hundredths.         *)
(***************************************************************************)
EXTENDS Integers, Sequences, FiniteSets, TLC

VARIABLES
    script,       \* which script's __main__ runs
    pc,           \* position in that script's main
    i,            \* loop index of the for-loop the position is in
    outDirExists, \* whether the output directory results/ exists
    convDir,      \* convergence CSV files of data_dir
    loadedFor,    \* the algorithm load_convergence_data was called for last
    data,         \* the value load_convergence_data returned last
    plotted,      \* algorithms drawn on the comparison axes, in order
    report_lines, \* table rows of the convergence report, in order
    outputs,      \* files written under the output directory
    printed,      \* messages written to stdout/stderr
    openFigs,     \* matplotlib figures created and not yet closed
    exc,          \* the exception that ended the run, or "none"
    excAt,        \* the step that raised it
    exitStatus,   \* "running", or the process's exit status
    sensDir,      \* files of the working directory (sensitivity scripts)
    ctime,        \* os.path.getctime of each of them
    csvTable,     \* the rows of the sensitivity CSV
    argDataFile,  \* the data_file argument of SensitivityPlotter
    existing,     \* output files an earlier run left in the output directory
    data_file,    \* self.data_file
    self_data,    \* self.data
    heatmap,      \* what the heatmap drawn last shows
    report,       \* sections of the sensitivity report written
    reads,        \* how often this invocation read each input CSV file
    content,      \* what each file of the output directory holds
    clock,        \* the wall clock, in seconds
    run,          \* 1 in the first invocation, 2 in a second one
    firstRun      \* what the first invocation left, once a second has begun

\* What a run never changes: the script and its input files.
inputs == <<script, convDir, sensDir, ctime, csvTable, argDataFile, existing>>
\* The state of ConvergencePlotter's methods.
convState == <<loadedFor, data, plotted, report_lines>>
\* The state of SensitivityPlotter and of plot_sensitivity_heatmap.
sensState == <<data_file, self_data, heatmap, report>>

\* What changes only between two invocations.
envState == <<clock, run, firstRun>>

vars == <<inputs, convState, sensState, pc, i, outDirExists, outputs, printed,
          openFigs, exc, excAt, exitStatus, reads, content, envState>>

(***************************************************************************)
(* Bounds of the model.                                                    *)
(***************************************************************************)
MaxAlgs == 2
NumIters == 3

Min(a, b) == IF a <= b THEN a ELSE b
Max(a, b) == IF a >= b THEN a ELSE b

(***************************************************************************)
(* Text helpers: str.split(sep), int(str), startswith.                     *)
(***************************************************************************)
RECURSIVE SplitFrom(_, _, _, _)
SplitFrom(s, sep, p, cur) ==
    IF p > Len(s) THEN <<cur>>
    ELSE IF p + Len(sep) - 1 <= Len(s) /\ SubSeq(s, p, p + Len(sep) - 1) = sep
         THEN <<cur>> \o SplitFrom(s, sep, p + Len(sep), <<>>)
         ELSE SplitFrom(s, sep, p + 1, Append(cur, s[p]))

\* s.split(sep): the pieces of s between the occurrences of sep, scanning
\* from the left.
Split(s, sep) == SplitFrom(s, sep, 1, <<>>)

DigitRuns ==
    <<
       <<"0", "1", "2", "3", "4", "5", "6", "7", "8", "9">>,
       <<"۰", "۱", "۲", "۳", "۴", "۵", "۶", "۷", "۸", "۹">>,
       <<"߀", "߁", "߂", "߃", "߄", "߅", "߆", "߇", "߈", "߉">>,
       <<"০", "১", "২", "৩", "৪", "৫", "৬", "৭", "৮", "৯">>,
       <<"૦", "૧", "૨", "૩", "૪", "૫", "૬", "૭", "૮", "૯">>,
       <<"௦", "௧", "௨", "௩", "௪", "௫", "௬", "௭", "௮", "௯">>,
       <<"೦", "೧", "೨", "೩", "೪", "೫", "೬", "೭", "೮", "೯">>,
       <<"෦", "෧", "෨", "෩", "෪", "෫", "෬", "෭", "෮", "෯">>,
       <<"໐", "໑", "໒", "໓", "໔", "໕", "໖", "໗", "໘", "໙">>,
       <<"႐", "႑", "႒", "႓", "႔", "႕", "႖", "႗", "႘", "႙">>,
       <<"០", "១", "២", "៣", "៤", "៥", "៦", "៧", "៨", "៩">>,
       <<"᧐", "᧑", "᧒", "᧓", "᧔", "᧕", "᧖", "᧗", "᧘", "᧙">>,
       <<"᪀", "᪁", "᪂", "᪃", "᪄", "᪅", "᪆", "᪇", "᪈", "᪉">>,
       <<"᪐", "᪑", "᪒", "᪓", "᪔", "᪕", "᪖", "᪗", "᪘", "᪙">>,
       <<"᮰", "᮱", "᮲", "᮳", "᮴", "᮵", "᮶", "᮷", "᮸", "᮹">>,
       <<"꣐", "꣑", "꣒", "꣓", "꣔", "꣕", "꣖", "꣗", "꣘", "꣙">>,
       <<"꧐", "꧑", "꧒", "꧓", "꧔", "꧕", "꧖", "꧗", "꧘", "꧙">>,
       <<"꧰", "꧱", "꧲", "꧳", "꧴", "꧵", "꧶", "꧷", "꧸", "꧹">>,
       <<"꯰", "꯱", "꯲", "꯳", "꯴", "꯵", "꯶", "꯷", "꯸", "꯹">> >>

Digits == { DigitRuns[r][p] : r \in 1..Len(DigitRuns), p \in 1..10 }

DigitVal(c) ==
    (CHOOSE p \in 1..10 : \E r \in 1..Len(DigitRuns) : DigitRuns[r][p] = c) - 1

RECURSIVE DecimalValue(_, _)
DecimalValue(s, acc) ==
    IF s = <<>> THEN acc
    ELSE IF Head(s) = "_" THEN DecimalValue(Tail(s), acc)
    ELSE DecimalValue(Tail(s), 10 * acc + DigitVal(Head(s)))

\* The characters U+000B, U+0085, U+00A0 and U+1680.
VerticalTab == ""
NextLine == ""
NoBreakSpace == " "
OghamSpaceMark == " "

\* The white space int() removes: that of ASCII (not the separators U+001C
\* to U+001F) and that of Unicode, of which a string of this module can
\* hold these (not U+2000 to U+200A, U+2028, U+2029, U+202F, U+205F,
\* U+3000).
Whitespace ==
    {" ", "\t", "\n", "\r", "\f", VerticalTab, NextLine, NoBreakSpace,
     OghamSpaceMark}

RECURSIVE LStrip(_)
LStrip(s) == IF s # <<>> /\ Head(s) \in Whitespace THEN LStrip(Tail(s)) ELSE s

RECURSIVE RStrip(_)
RStrip(s) ==
    IF s # <<>> /\ s[Len(s)] \in Whitespace THEN RStrip(SubSeq(s, 1, Len(s) - 1))
    ELSE s

\* int(text): white space around the literal is dropped; the literal is an
\* optional sign, then decimal digits, of any script, that single
\* underscores may separate; anything else raises ValueError.
PyInt(text) ==
    LET literal == RStrip(LStrip(text))
        signed == literal # <<>> /\ Head(literal) \in {"+", "-"}
        body == IF signed THEN Tail(literal) ELSE literal
        wellFormed ==
            /\ body # <<>>
            /\ \A p \in 1..Len(body) : body[p] \in Digits \cup {"_"}
            /\ body[1] \in Digits /\ body[Len(body)] \in Digits
            /\ \A p \in 1..(Len(body) - 1) : ~(body[p] = "_" /\ body[p + 1] = "_")
    IN IF ~wellFormed THEN [ok |-> FALSE, val |-> 0]
       ELSE [ok |-> TRUE,
             val |-> IF signed /\ Head(literal) = "-" THEN 0 - DecimalValue(body, 0)
                     ELSE DecimalValue(body, 0)]

StartsWith(s, prefix) ==
    Len(prefix) <= Len(s) /\ SubSeq(s, 1, Len(prefix)) = prefix

RECURSIVE SortedSeq(_)
\* The members of a finite set of integers in ascending order.
SortedSeq(S) ==
    IF S = {} THEN <<>>
    ELSE LET m == CHOOSE x \in S : \A y \in S : x <= y
         IN <<m>> \o SortedSeq(S \ {m})

(***************************************************************************)
(* Natural numbers of any size, as sequences of digits in base 2^15,       *)
(* lowest digit first and the highest digit not 0 (zero is the empty       *)
(* sequence): the 53-bit significands of doubles and their products do not *)
(* fit an integer of this module.                                          *)
(***************************************************************************)
LimbBits == 15
Radix == 32768

\* 2^k, for k in 0..LimbBits
Pow2(k) ==
    <<1, 2, 4, 8, 16, 32, 64, 128, 256, 512, 1024, 2048, 4096, 8192, 16384,
      32768>>[k + 1]

\* The number of bits of a digit.
SmallBitLen(d) ==
    CHOOSE k \in 0..LimbBits : d < Pow2(k) /\ (k = 0 \/ d >= Pow2(k - 1))

RECURSIVE LFromInt(_)
LFromInt(n) == IF n = 0 THEN <<>> ELSE <<n % Radix>> \o LFromInt(n \div Radix)

RECURSIVE LToInt(_)
LToInt(a) == IF a = <<>> THEN 0 ELSE Head(a) + Radix * LToInt(Tail(a))

\* The digit of a of weight Radix^(p - 1).
At(a, p) == IF p >= 1 /\ p <= Len(a) THEN a[p] ELSE 0

\* Without its high zeros.
LTrim(a) ==
    SubSeq(a, 1, CHOOSE p \in 0..Len(a) :
                    /\ p = 0 \/ a[p] # 0
                    /\ \A q \in (p + 1)..Len(a) : a[q] = 0)

\* The number of bits of a.
BitLen(a) ==
    IF a = <<>> THEN 0 ELSE LimbBits * (Len(a) - 1) + SmallBitLen(a[Len(a)])

\* The bit of a of weight 2^(p - 1).
Bit(a, p) ==
    (At(a, (p - 1) \div LimbBits + 1) \div Pow2((p - 1) % LimbBits)) % 2

\* Are the k lowest bits of a all 0?
LowBitsZero(a, k) ==
    /\ \A q \in 1..Min(k \div LimbBits, Len(a)) : a[q] = 0
    /\ At(a, k \div LimbBits + 1) % Pow2(k % LimbBits) = 0

\* The number of low bits of a > 0 that are 0.
LowZeros(a) ==
    LET w == CHOOSE j \in 0..(Len(a) - 1) :
                a[j + 1] # 0 /\ \A q \in 1..j : a[q] = 0
        t == CHOOSE k \in 0..(LimbBits - 1) : a[w + 1] % Pow2(k + 1) = Pow2(k)
    IN LimbBits * w + t

\* a + b: a digit passes a carry on when it receives one and its sum is
\* Radix - 1, and sends one when its sum is Radix or more.
LAdd(a, b) ==
    LET s(p) == At(a, p) + At(b, p)
        carry(p) == IF \E q \in 1..(p - 1) :
                          /\ s(q) >= Radix
                          /\ \A r \in (q + 1)..(p - 1) : s(r) = Radix - 1
                    THEN 1 ELSE 0
    IN LTrim([p \in 1..(Max(Len(a), Len(b)) + 1) |->
                 (s(p) + carry(p)) % Radix])

\* a - b, for a >= b: a digit borrows when the digits below it are less in
\* a than in b.
LSub(a, b) ==
    LET borrow(p) == IF \E q \in 1..(p - 1) :
                           /\ a[q] < At(b, q)
                           /\ \A r \in (q + 1)..(p - 1) : a[r] = At(b, r)
                     THEN 1 ELSE 0
    IN LTrim([p \in 1..Len(a) |->
                 (a[p] - At(b, p) - borrow(p) + Radix) % Radix])

\* a < b
LLess(a, b) ==
    IF Len(a) # Len(b) THEN Len(a) < Len(b)
    ELSE \E p \in 1..Len(a) :
            a[p] < b[p] /\ \A q \in (p + 1)..Len(a) : a[q] = b[q]

\* a * k, for 0 <= k <= Radix: the low halves of the products of the
\* digits, plus their high halves one digit up.
LMulSmall(a, k) ==
    LAdd([p \in 1..Len(a) |-> (a[p] * k) % Radix],
         <<0>> \o [p \in 1..Len(a) |-> (a[p] * k) \div Radix])

\* a * 2^s
LShl(a, s) ==
    LET w == s \div LimbBits
        t == s % LimbBits
    IN LTrim([p \in 1..(Len(a) + w + 1) |->
                 (At(a, p - w) % Pow2(LimbBits - t)) * Pow2(t)
                 + At(a, p - w - 1) \div Pow2(LimbBits - t)])

\* a // 2^s
LShr(a, s) ==
    LET w == s \div LimbBits
        t == s % LimbBits
    IN LTrim([p \in 1..Max(0, Len(a) - w) |->
                 At(a, p + w) \div Pow2(t)
                 + (At(a, p + w + 1) % Pow2(t)) * Pow2(LimbBits - t)])

RECURSIVE LDivLoop(_, _, _, _)
\* The long division of a by b, whose highest digit is at least Radix / 2,
\* at digit p of a, with quotient st.q and remainder st.r so far. The
\* quotient of the two highest digits of the remainder by the highest digit
\* of b is the next digit of the quotient, or 1 or 2 more than it.
LDivLoop(a, b, p, st) ==
    IF p = 0 THEN st
    ELSE IF st.r = <<>> /\ a[p] = 0
    THEN LDivLoop(a, b, p - 1, [q |-> LShl(st.q, LimbBits), r |-> <<>>])
    ELSE LET rem == LTrim(<<a[p]>> \o st.r)
             n == Len(b)
             qhat == Min(Radix - 1,
                         (At(rem, n + 1) * Radix + At(rem, n)) \div b[n])
             prod == LMulSmall(b, qhat)
             over == IF ~LLess(rem, prod) THEN 0
                     ELSE IF ~LLess(LAdd(rem, b), prod) THEN 1 ELSE 2
         IN LDivLoop(a, b, p - 1,
                     [q |-> LTrim(<<qhat - over>> \o st.q),
                      r |-> LSub(LAdd(rem, LMulSmall(b, over)), prod)])

\* a // b in q, and whether a % b is 0 in exact, for b > 0
LDivMod(a, b) ==
    LET sh == LimbBits - SmallBitLen(b[Len(b)])
        A == LShl(a, sh)
        B == LShl(b, sh)
        first == Len(A) - Len(B) + 1
        qr == IF first < 1 THEN [q |-> <<>>, r |-> A]
              ELSE LDivLoop(A, B, first,
                            [q |-> <<>>, r |-> SubSeq(A, first + 1, Len(A))])
    IN [q |-> qr.q, exact |-> qr.r = <<>>]

(***************************************************************************)
(* numpy.float64 values, as the report computes with them: nan, inf,       *)
(* -inf, or a signed m * 2^e with a significand m of at most 53 bits (kept *)
(* odd, so that equal values are equal records). A double is below 2^1024  *)
(* in magnitude and a multiple of 2^-1074: below 2^-1022 its significand   *)
(* has fewer than 53 bits. Every operation gives the double nearest to the *)
(* exact result, a tie going to the even significand: an infinity when     *)
(* that is 2^1024 or more, zero when it is less than half of 2^-1074.      *)
(* Dividing by zero raises nothing: it gives nan for 0/0 and an infinity   *)
(* otherwise.                                                              *)
(***************************************************************************)
Precision == 53
MinExponent == -1074
MaxBitLen == 1024

Dbl(neg, m, e) ==
    IF m = <<>> THEN [kind |-> "num", neg |-> neg, m |-> <<>>, e |-> 0]
    ELSE [kind |-> "num", neg |-> neg, m |-> LShr(m, LowZeros(m)),
          e |-> e + LowZeros(m)]

NaN == [kind |-> "nan", neg |-> FALSE, m |-> <<>>, e |-> 0]
Inf == [kind |-> "inf", neg |-> FALSE, m |-> <<>>, e |-> 0]
NegInf == [kind |-> "-inf", neg |-> TRUE, m |-> <<>>, e |-> 0]

Infinity(neg) == IF neg THEN NegInf ELSE Inf

\* m * 2^e, a multiple of the unit of its range, as a double.
Finite(neg, m, e) ==
    IF BitLen(m) + e > MaxBitLen THEN Infinity(neg) ELSE Dbl(neg, m, e)

\* The double nearest to M * 2^e, or to a value between M * 2^e and
\* (M + 1) * 2^e when inexact (M then has more than Precision + 1 bits).
\* The unit of the result's range is 2^quantum.
RoundBits(neg, M, e, inexact) ==
    LET quantum == Max(BitLen(M) + e - Precision, MinExponent)
        drop == quantum - e
    IN IF drop <= 0 THEN Finite(neg, M, e)
       ELSE LET kept == LShr(M, drop)
                rest == inexact \/ ~LowBitsZero(M, drop - 1)
                up == Bit(M, drop) = 1 /\ (rest \/ Bit(kept, 1) = 1)
            IN Finite(neg, IF up THEN LAdd(kept, <<1>>) ELSE kept, quantum)

\* The double nearest to N / D * 2^e, for naturals N and D > 0.
RoundRat(neg, N, D, e) ==
    IF N = <<>> THEN Dbl(neg, <<>>, 0)
    ELSE LET s == Precision + 2 + BitLen(D) - BitLen(N)
             qr == LDivMod(IF s > 0 THEN LShl(N, s) ELSE N,
                           IF s < 0 THEN LShl(D, 0 - s) ELSE D)
         IN RoundBits(neg, qr.q, e - s, ~qr.exact)

\* The double n / d of integers n and d > 0: a sum divided by a count. A
\* quotient that is an integer is a double as it stands.
Num(n, d) ==
    LET magnitude == IF n < 0 THEN 0 - n ELSE n
    IN IF magnitude % d = 0 THEN Dbl(n < 0, LFromInt(magnitude \div d), 0)
       ELSE RoundRat(n < 0, LFromInt(magnitude), LFromInt(d), 0)

\* x - y
FSub(x, y) ==
    IF x.kind = "nan" \/ y.kind = "nan" THEN NaN
    ELSE IF x.kind # "num" THEN (IF y.kind = x.kind THEN NaN ELSE x)
    ELSE IF y.kind # "num" THEN Infinity(~y.neg)
    ELSE LET e0 == Min(x.e, y.e)
             X == LShl(x.m, x.e - e0)
             Y == LShl(y.m, y.e - e0)
         IN IF x.neg # y.neg THEN RoundBits(x.neg, LAdd(X, Y), e0, FALSE)
            ELSE IF X = Y THEN Dbl(FALSE, <<>>, 0)
            ELSE IF LLess(Y, X) THEN RoundBits(x.neg, LSub(X, Y), e0, FALSE)
            ELSE RoundBits(~x.neg, LSub(Y, X), e0, FALSE)

\* x / y
FDiv(x, y) ==
    IF x.kind = "nan" \/ y.kind = "nan" THEN NaN
    ELSE IF x.kind # "num"
    THEN IF y.kind # "num" THEN NaN ELSE Infinity(x.neg # y.neg)
    ELSE IF y.kind # "num" THEN Dbl(x.neg # y.neg, <<>>, 0)
    ELSE IF y.m = <<>>
    THEN IF x.m = <<>> THEN NaN ELSE Infinity(x.neg # y.neg)
    ELSE IF x.m = <<>> THEN Dbl(x.neg # y.neg, <<>>, 0)
    ELSE RoundRat(x.neg # y.neg, x.m, y.m, x.e - y.e)

\* x * 100
FTimes100(x) ==
    IF x.kind = "num" THEN RoundBits(x.neg, LMulSmall(x.m, 100), x.e, FALSE)
    ELSE x

\* f"{x:.2f}": nan, inf, -inf, or the decimal with two places nearest to
\* the exact value of the double, a tie going to the even digit; in
\* hundredths, with the sign written (a negative value that rounds to zero
\* reads -0.00). The hundredths are an integer of this module: the value is
\* below 2^31 / 100 in magnitude.
Format2(x) ==
    IF x.kind # "num" THEN [text |-> x.kind, hundredths |-> 0, minus |-> FALSE]
    ELSE LET T == LMulSmall(x.m, 100)
             k == 0 - x.e
             whole == IF k <= 0 THEN LToInt(LShl(T, x.e)) ELSE LToInt(LShr(T, k))
             half == k >= 1 /\ Bit(T, k) = 1
             rest == ~LowBitsZero(T, k - 1)
             up == half /\ (rest \/ whole % 2 = 1)
             magnitude == IF up THEN whole + 1 ELSE whole
         IN [text |-> "num",
             hundredths |-> IF x.neg THEN 0 - magnitude ELSE magnitude,
             minus |-> x.neg]

(***************************************************************************)
(* plot_convergence.py: the inputs.                                        *)
(***************************************************************************)
\* main's configuration: the algorithms to plot and the scale.
MainAlgorithms == <<"Random", "GWO", "WOA", "CBO", "ICBO-Enhanced">>
algorithms == SubSeq(MainAlgorithms, 1, Min(MaxAlgs, Len(MainAlgorithms)))
scale == "M100"

NameChars(name) ==
    CASE name = "Random" -> <<"R", "a", "n", "d", "o", "m">>
      [] name = "GWO" -> <<"G", "W", "O">>
      [] name = "WOA" -> <<"W", "O", "A">>
      [] name = "CBO" -> <<"C", "B", "O">>
      [] name = "ICBO-Enhanced" ->
            <<"I", "C", "B", "O", "-", "E", "n", "h", "a", "n", "c", "e", "d">>
      [] name = "M100" -> <<"M", "1", "0", "0">>

SeedWord == <<"s", "e", "e", "d">>

\* The fixed part of the glob pattern f"convergence_{algorithm}_{scale}_seed*.csv".
PatternPrefix(algorithm, sc) ==
    <<"c", "o", "n", "v", "e", "r", "g", "e", "n", "c", "e", "_">>
        \o NameChars(algorithm) \o <<"_">> \o NameChars(sc) \o <<"_">> \o SeedWord

\* What the pattern's * stands for in the files the directory may hold: a
\* run of digits between a vertical tab and a blank, a name with a second "seed" and a leading
\* zero, and a name that is no number.
SeedSuffixes ==
    << <<VerticalTab, "4", "2", " ">>,
       <<"1", "_", "s", "e", "e", "d", "0", "7">>,
       <<"x">> >>

\* The best makespan a run recorded at its iteration number it (from 1), for
\* the seed file number s of the algorithm number a of the list: a curve
\* that drops once from 100 to 80, flat curves, and a steady descent. A
\* best-so-far value never rises.
Fitness(a, s, it) ==
    CASE a = 1 /\ s = 1 -> IF it = 1 THEN 100 ELSE 80
      [] a = 1 /\ s # 1 -> 60
      [] a # 1 /\ s = 1 -> 50 * (a - 1)
      [] OTHER -> 100 - 10 * a - 10 * (it - 1)

\* The rows (Iteration, BestFitness) of that file, when the runs recorded K
\* iterations.
FileRows(a, s, K) ==
    [it \in 1..K |-> [Iteration |-> it - 1, BestFitness |-> Fitness(a, s, it)]]

\* Every convergence CSV file the directory may hold (all named *.csv) after
\* runs of K iterations.
CandidateFiles(K) ==
    { [stem |-> PatternPrefix(algorithms[a], scale) \o SeedSuffixes[s],
       rows |-> FileRows(a, s, K)] :
        a \in 1..Len(algorithms), s \in 1..Len(SeedSuffixes) }

\* Path.glob gives the matching files in an order the file system chooses.
Orderings(S) ==
    { q \in [1..Cardinality(S) -> S] : \A a, b \in 1..Cardinality(S) : a # b => q[a] # q[b] }

(***************************************************************************)
(* ConvergencePlotter.load_convergence_data                                *)
(***************************************************************************)
\* self.data_dir.glob(pattern)
GlobConvergence(dir, algorithm, sc) ==
    { f \in dir : StartsWith(f.stem, PatternPrefix(algorithm, sc)) }

\* Mutant: the piece after the first 'seed', split('seed')[1].
SeedText_first(stem) ==
    LET pieces == Split(stem, SeedWord) IN pieces[2]

\* file.stem.split('seed')[-1]
SeedText(stem) ==
    LET pieces == Split(stem, SeedWord) IN pieces[Len(pieces)]

\* df['Seed'] = seed, for every row of the file
WithSeed(rows, seed) ==
    [r \in 1..Len(rows) |->
        [Iteration |-> rows[r].Iteration, BestFitness |-> rows[r].BestFitness,
         Seed |-> seed]]

RECURSIVE ConcatFiles(_)
ConcatFiles(files) ==
    IF files = <<>> THEN <<>>
    ELSE WithSeed(Head(files).rows, PyInt(SeedText(Head(files).stem)).val)
            \o ConcatFiles(Tail(files))

\* Mutant: no matching file raises instead of returning None.
load_convergence_data_raising(files) ==
    IF files = <<>> THEN [kind |-> "ValueError"]
    ELSE IF \E p \in 1..Len(files) : ~PyInt(SeedText(files[p].stem)).ok
         THEN [kind |-> "ValueError"]
         ELSE [kind |-> "table", nfiles |-> Len(files), rows |-> ConcatFiles(files)]

\* The value returned for the files found, in the order glob gave them:
\* None, the concatenated table, or the ValueError int() raised.
load_convergence_data(files) ==
    IF files = <<>> THEN [kind |-> "None"]
    ELSE IF \E p \in 1..Len(files) : ~PyInt(SeedText(files[p].stem)).ok
         THEN [kind |-> "ValueError"]
         ELSE [kind |-> "table", nfiles |-> Len(files), rows |-> ConcatFiles(files)]

LoadPrinted(algorithm, r) ==
    IF r.kind = "None" THEN {<<"not_found", algorithm>>}
    ELSE IF r.kind = "table" THEN {<<"loaded", algorithm>>}
    ELSE {}

RECURSIVE SumFitness(_, _)
\* The sum of BestFitness over the rows of one Iteration.
SumFitness(rows, it) ==
    IF rows = <<>> THEN 0
    ELSE (IF Head(rows).Iteration = it THEN Head(rows).BestFitness ELSE 0)
            + SumFitness(Tail(rows), it)

\* data.groupby('Iteration')['BestFitness'].mean(): one entry per distinct
\* Iteration, in ascending order, holding the mean over the seeds.
GroupMean(rows) ==
    LET its == SortedSeq({ rows[r].Iteration : r \in 1..Len(rows) })
    IN [p \in 1..Len(its) |->
          Num(SumFitness(rows, its[p]),
              Cardinality({ r \in 1..Len(rows) : rows[r].Iteration = its[p] }))]

(***************************************************************************)
(* Output files.                                                           *)
(***************************************************************************)
IndividualPng(algorithm, sc) == <<"convergence_individual_", algorithm, sc, ".png">>
ComparisonPng(sc) == <<"convergence_comparison_", sc, ".png">>
ReportMd(sc) == <<"convergence_report_", sc, ".md">>

(***************************************************************************)
(* An exception no handler catches: the interpreter prints the traceback   *)
(* and the process ends with status 1.                                     *)
(***************************************************************************)
\* Mutant: a file that exists is left as it is.
Write_ifAbsent(name, time, body) ==
    /\ outputs' = outputs \cup {name}
    /\ content' = [f \in outputs \cup {name} |->
                      IF f = name /\ name \notin outputs
                      THEN [run |-> run, time |-> time, body |-> body]
                      ELSE content[f]]

\* A file of the output directory is created or overwritten (savefig, or
\* open(..., 'w')): it holds what this run drew or wrote, and the time it
\* states if it states one (0 if none).
Write(name, time, body) ==
    /\ outputs' = outputs \cup {name}
    /\ content' = [f \in outputs \cup {name} |->
                      IF f = name THEN [run |-> run, time |-> time, body |-> body]
                      ELSE content[f]]

\* Mutant: a file already read in this invocation is not read again.
ReadFiles_cached(rd, files) ==
    [f \in DOMAIN rd |->
        IF rd[f] = 0 /\ \E p \in 1..Len(files) : files[p] = f THEN 1 ELSE rd[f]]

\* pd.read_csv on the files load_convergence_data gets to: the loop stops
\* at the first stem int() rejects, before reading that file.
ReadFiles(rd, files) ==
    LET bad == { p \in 1..Len(files) : ~PyInt(SeedText(files[p].stem)).ok }
        upto == IF bad = {} THEN Len(files)
                ELSE (CHOOSE p \in bad : \A q \in bad : p <= q) - 1
    IN [f \in DOMAIN rd |->
          IF \E p \in 1..upto : files[p] = f THEN rd[f] + 1 ELSE rd[f]]

\* pd.read_csv(path) on one file
ReadFile(rd, path) == [f \in DOMAIN rd |-> IF f = path THEN rd[f] + 1 ELSE rd[f]]

\* Mutant: the exception is swallowed and the process ends normally.
Uncaught_swallowed(type, step) ==
    /\ exc' = type
    /\ excAt' = step
    /\ pc' = "handled"
    /\ exitStatus' = "0"

Uncaught(type, step) ==
    /\ exc' = type
    /\ excAt' = step
    /\ pc' = "terminated"
    /\ exitStatus' = "1"

(***************************************************************************)
(* plot_convergence.py: main, step by step.                                *)
(***************************************************************************)
\* Step 1 of main: plotter.plot_single_algorithm(algorithm, scale) for the
\* algorithm the loop is at.
plot_single_algorithm ==
    /\ script = "convergence" /\ pc = "single"
    /\ \E order \in Orderings(GlobConvergence(convDir, algorithms[i], scale)),
          saved \in BOOLEAN :
        LET r == load_convergence_data(order) IN
        /\ data' = r
        /\ reads' = ReadFiles(reads, order)
        /\ loadedFor' = algorithms[i]
        /\ IF r.kind = "None"
           THEN /\ printed' = printed \cup LoadPrinted(algorithms[i], r)
                /\ i' = IF i = Len(algorithms) THEN 1 ELSE i + 1
                /\ pc' = IF i = Len(algorithms) THEN "comparison" ELSE "single"
                /\ UNCHANGED <<outputs, content, openFigs, exc, excAt, exitStatus>>
           ELSE IF r.kind = "ValueError"
           THEN /\ Uncaught("ValueError", "plot_single_algorithm")
                /\ printed' = printed \cup {<<"traceback">>}
                /\ UNCHANGED <<i, outputs, content, openFigs>>
           ELSE IF saved
           THEN /\ Write(IndividualPng(algorithms[i], scale), 0, GroupMean(r.rows))
                /\ printed' = printed \cup LoadPrinted(algorithms[i], r)
                /\ i' = IF i = Len(algorithms) THEN 1 ELSE i + 1
                /\ pc' = IF i = Len(algorithms) THEN "comparison" ELSE "single"
                /\ UNCHANGED <<openFigs, exc, excAt, exitStatus>>
           ELSE /\ Uncaught("RenderError", "plot_single_algorithm")
                /\ printed' = printed \cup LoadPrinted(algorithms[i], r)
                                      \cup {<<"traceback">>}
                /\ openFigs' = openFigs + 1
                /\ UNCHANGED <<i, outputs, content>>
    /\ UNCHANGED <<inputs, envState, sensState, outDirExists, plotted, report_lines>>

\* Step 2 of main, plot_comparison: the figure is created.
plot_comparison_begin ==
    /\ script = "convergence" /\ pc = "comparison"
    /\ openFigs' = openFigs + 1
    /\ plotted' = <<>>
    /\ i' = 1
    /\ pc' = "comparison_loop"
    /\ UNCHANGED <<inputs, envState, reads, sensState, outDirExists, loadedFor, data,
                   report_lines, outputs, content, printed, exc, excAt, exitStatus>>

\* plot_comparison: one pass of "for algorithm in algorithms".
plot_comparison_loop ==
    /\ script = "convergence" /\ pc = "comparison_loop"
    /\ \E order \in Orderings(GlobConvergence(convDir, algorithms[i], scale)) :
        LET r == load_convergence_data(order) IN
        /\ data' = r
        /\ reads' = ReadFiles(reads, order)
        /\ loadedFor' = algorithms[i]
        /\ IF r.kind = "ValueError"
           THEN /\ Uncaught("ValueError", "plot_comparison")
                /\ printed' = printed \cup {<<"traceback">>}
                /\ UNCHANGED <<i, plotted>>
           ELSE /\ plotted' = IF r.kind = "None" THEN plotted
                              ELSE Append(plotted, algorithms[i])
                /\ printed' = printed \cup LoadPrinted(algorithms[i], r)
                /\ i' = IF i = Len(algorithms) THEN 1 ELSE i + 1
                /\ pc' = IF i = Len(algorithms) THEN "comparison_save"
                         ELSE "comparison_loop"
                /\ UNCHANGED <<exc, excAt, exitStatus>>
    /\ UNCHANGED <<inputs, envState, sensState, outDirExists, report_lines, outputs, content, openFigs>>

\* plot_comparison: legend, savefig, close.
plot_comparison_save ==
    /\ script = "convergence" /\ pc = "comparison_save"
    /\ \E saved \in BOOLEAN :
        IF saved
        THEN /\ Write(ComparisonPng(scale), 0, plotted)
             /\ openFigs' = openFigs - 1
             /\ pc' = "report"
             /\ UNCHANGED <<printed, exc, excAt, exitStatus>>
        ELSE /\ Uncaught("RenderError", "plot_comparison")
             /\ printed' = printed \cup {<<"traceback">>}
             /\ UNCHANGED <<outputs, content, openFigs>>
    /\ UNCHANGED <<inputs, envState, reads, sensState, outDirExists, convState, i>>

\* Step 3 of main, generate_convergence_report: the header lines.
generate_convergence_report_begin ==
    /\ script = "convergence" /\ pc = "report"
    /\ report_lines' = <<>>
    /\ i' = 1
    /\ pc' = "report_loop"
    /\ UNCHANGED <<inputs, envState, reads, sensState, outDirExists, loadedFor, data, plotted,
                   outputs, content, printed, openFigs, exc, excAt, exitStatus>>

\* Mutant: the improvement relative to the final value.
Improvement_ofFinal(initial, final) == FTimes100(FDiv(FSub(initial, final), final))

\* improvement = (initial - final) / initial * 100
Improvement(initial, final) == FTimes100(FDiv(FSub(initial, final), initial))

\* Mutant: the midpoint of the positions 0..n-1, (n - 1) // 2.
HalfPoint_low(n) == (n - 1) \div 2

\* half_point = len(mean_data) // 2, a 0-based position
HalfPoint(n) == n \div 2

\* Mutant: no net improvement is reported as a speed of zero.
HalfImprovement_guarded(initial, mid, final) ==
    IF FSub(initial, final).m = <<>> THEN Num(0, 1)
    ELSE FTimes100(FDiv(FSub(initial, mid), FSub(initial, final)))

\* half_improvement = (initial - mean_data.iloc[half_point]) / (initial - final) * 100
HalfImprovement(initial, mid, final) ==
    FTimes100(FDiv(FSub(initial, mid), FSub(initial, final)))

\* The cells of one row of the report's table, as formatted.
ReportCells(algorithm, rows) ==
    LET mean_data == GroupMean(rows)
        initial == mean_data[1]
        final == mean_data[Len(mean_data)]
        half_point == HalfPoint(Len(mean_data))
    IN [algorithm |-> algorithm,
        initial |-> Format2(initial),
        final |-> Format2(final),
        improvement |-> Format2(Improvement(initial, final)),
        half_improvement |->
            Format2(HalfImprovement(initial, mean_data[half_point + 1], final))]

\* Mutant: an algorithm without data gets a row too.
ReportRow_placeholder(lines, algorithm, r) ==
    Append(lines, IF r.kind = "None"
                  THEN [algorithm |-> algorithm, initial |-> Format2(NaN),
                        final |-> Format2(NaN), improvement |-> Format2(NaN),
                        half_improvement |-> Format2(NaN)]
                  ELSE ReportCells(algorithm, r.rows))

\* The report's rows after the pass for one algorithm: data is None skips
\* it (continue), anything else appends its row.
ReportRow(lines, algorithm, r) ==
    IF r.kind = "None" THEN lines ELSE Append(lines, ReportCells(algorithm, r.rows))

\* generate_convergence_report: one pass of "for algorithm in algorithms".
generate_convergence_report_loop ==
    /\ script = "convergence" /\ pc = "report_loop"
    /\ \E order \in Orderings(GlobConvergence(convDir, algorithms[i], scale)) :
        LET r == load_convergence_data(order) IN
        /\ data' = r
        /\ reads' = ReadFiles(reads, order)
        /\ loadedFor' = algorithms[i]
        /\ IF r.kind = "ValueError"
           THEN /\ Uncaught("ValueError", "generate_convergence_report")
                /\ printed' = printed \cup {<<"traceback">>}
                /\ UNCHANGED <<i, report_lines>>
           ELSE /\ report_lines' = ReportRow(report_lines, algorithms[i], r)
                /\ printed' = printed \cup LoadPrinted(algorithms[i], r)
                /\ i' = IF i = Len(algorithms) THEN 1 ELSE i + 1
                /\ pc' = IF i = Len(algorithms) THEN "report_write"
                         ELSE "report_loop"
                /\ UNCHANGED <<exc, excAt, exitStatus>>
    /\ UNCHANGED <<inputs, envState, sensState, outDirExists, plotted, outputs, content, openFigs>>

\* generate_convergence_report: the report file is written; main ends.
generate_convergence_report_write ==
    /\ script = "convergence" /\ pc = "report_write"
    /\ Write(ReportMd(scale), clock, report_lines)
    /\ printed' = printed \cup {<<"all_done">>}
    /\ pc' = "done"
    /\ exitStatus' = "0"
    /\ UNCHANGED <<inputs, envState, reads, sensState, outDirExists, convState, i, openFigs,
                   exc, excAt>>

(***************************************************************************)
(* plot_sensitivity.py and plot_sensitivity_simple.py: the inputs.         *)
(***************************************************************************)
MaxRows == 3
MaxCtime == 2

None == "None"
\* No path: data_file before __init__, or the argument data_file=None.
NoFile == <<"None">>
\* self.data = None
NoData == [loaded |-> FALSE, rows |-> <<>>]
Loaded(table) == [loaded |-> TRUE, rows |-> table]

\* Files the working directory may hold: a name is (head, middle, extension).
SensitivityFiles ==
    { <<"sensitivity_results_", "20251210_223839", ".csv">>,
      <<"sensitivity_results_", "20251101_090000", ".csv">> }
OtherFile == <<"grid_", "backup", ".csv">>
WorkingDirFiles == SensitivityFiles \cup {OtherFile}

\* glob.glob("sensitivity_results_*.csv")
GlobSensitivity(dir) ==
    { f \in dir : f[1] = "sensitivity_results_" /\ f[3] = ".csv" }

\* One row of the sensitivity CSV; lambda in hundredths.
SensRow(k, lam, mean) ==
    [k |-> k, lambda |-> lam, MeanMakespan |-> mean, StdMakespan |-> mean \div 10,
     CV |-> 100 - k - lam, MinMakespan |-> mean - 5, MaxMakespan |-> mean + 5]

\* The rows a table is made of: the reference pair (3, 0.40) twice with
\* different results, its neighbours 0.39, 0.41 and 0.42, and another k.
RowUniverse ==
    << SensRow(3, 40, 120), SensRow(3, 41, 100), SensRow(3, 39, 130),
       SensRow(2, 40, 110), SensRow(3, 40, 90), SensRow(3, 42, 95) >>

RowsOf(n) ==
    { t \in [1..n -> 1..Len(RowUniverse)] : \A a, b \in 1..n : a # b => t[a] # t[b] }

\* Every table of 1..MaxRows rows, in every order of the rows.
Tables ==
    UNION { { [p \in 1..n |-> RowUniverse[t[p]]] : t \in RowsOf(n) } : n \in 1..MaxRows }

DefaultTable == << RowUniverse[4], RowUniverse[1], RowUniverse[2] >>

\* A grid of six configurations, more than the report's table shows, as the
\* upstream test writes it and with its rows in the opposite order.
WideTable ==
    << SensRow(2, 39, 105), SensRow(3, 41, 100), SensRow(3, 39, 130),
       SensRow(2, 40, 110), SensRow(3, 40, 90), SensRow(3, 42, 95) >>
LargeTables ==
    { WideTable, [p \in 1..Len(WideTable) |-> WideTable[Len(WideTable) + 1 - p]] }

Metrics == <<"MeanMakespan", "StdMakespan", "CV">>
HeatmapFiles ==
    <<"sensitivity_heatmap_mean.png", "sensitivity_heatmap_std.png",
      "sensitivity_heatmap_cv.png">>

\* Every file plot_sensitivity.py writes.
SensitivityOutputs ==
    { HeatmapFiles[m] : m \in 1..Len(HeatmapFiles) }
        \cup {"sensitivity_trends.png", "sensitivity_analysis_report.md"}

(***************************************************************************)
(* Table helpers: sorting, DataFrame.pivot, Series.between.                *)
(***************************************************************************)
IndexOf(seq, x) == CHOOSE p \in 1..Len(seq) : seq[p] = x

Range(seq) == { seq[p] : p \in 1..Len(seq) }

\* Mutant: a repeated (lambda, k) is accepted, its values kept together.
Pivot_lenient(table, metric) ==
    LET lams == { table[p].lambda : p \in 1..Len(table) }
        ks == { table[p].k : p \in 1..Len(table) }
    IN [kind |-> "pivot",
        index |-> SortedSeq(lams),
        columns |-> SortedSeq(ks),
        cells |-> [c \in lams \X ks |->
            { table[p][metric] : p \in { q \in 1..Len(table) :
                  table[q].lambda = c[1] /\ table[q].k = c[2] } }]]

\* self.data.pivot(index='lambda', columns='k', values=metric): ValueError
\* for a repeated (lambda, k); else one row per lambda and one column per k,
\* both ascending; a cell holds the value of its source row, and no value
\* (NaN, the empty set here) without one.
Pivot(table, metric) ==
    IF \E a, b \in 1..Len(table) :
          a # b /\ table[a].lambda = table[b].lambda /\ table[a].k = table[b].k
    THEN [kind |-> "ValueError"]
    ELSE LET lams == { table[p].lambda : p \in 1..Len(table) }
             ks == { table[p].k : p \in 1..Len(table) }
         IN [kind |-> "pivot",
             index |-> SortedSeq(lams),
             columns |-> SortedSeq(ks),
             cells |-> [c \in lams \X ks |->
                 { table[p][metric] : p \in { q \in 1..Len(table) :
                       table[q].lambda = c[1] /\ table[q].k = c[2] } }]]

\* SensitivityPlotter._mark_default_config: list.index raises ValueError for
\* a missing 3 or 0.4; the handler passes, and nothing was drawn yet.
LambdaDefault == 40
KDefault == 3
\* Mutant: the rectangle is drawn as soon as k = 3 is found.
_mark_default_config_rect_first(pivot_table) ==
    IF KDefault \in Range(pivot_table.columns) /\ LambdaDefault \in Range(pivot_table.index)
    THEN [rect |-> TRUE, star |-> TRUE,
          k_index |-> IndexOf(pivot_table.columns, KDefault) - 1,
          lambda_index |-> IndexOf(pivot_table.index, LambdaDefault) - 1]
    ELSE [rect |-> KDefault \in Range(pivot_table.columns), star |-> FALSE]

_mark_default_config(pivot_table) ==
    IF KDefault \in Range(pivot_table.columns) /\ LambdaDefault \in Range(pivot_table.index)
    THEN [rect |-> TRUE, star |-> TRUE,
          k_index |-> IndexOf(pivot_table.columns, KDefault) - 1,
          lambda_index |-> IndexOf(pivot_table.index, LambdaDefault) - 1]
    ELSE [rect |-> FALSE, star |-> FALSE]

\* Mutant: the right end excluded.
Between_rightOpen(x, left, right) == left <= x /\ x < right

\* Series.between(left, right): both ends included.
Between(x, left, right) == left <= x /\ x <= right

WindowLow == 39
WindowHigh == 41

\* (self.data['k'] == 3) & (self.data['lambda'].between(0.39, 0.41)): the
\* positions of the matching rows, in table order.
DefaultConfigRows(table) ==
    SelectSeq([p \in 1..Len(table) |-> p],
              LAMBDA p : table[p].k = KDefault
                         /\ Between(table[p].lambda, WindowLow, WindowHigh))

\* Mutant: the report looks the reference pair up by equality, as the
\* marker does.
ReferenceSection_exact(table) ==
    LET exact == SelectSeq([p \in 1..Len(table) |-> p],
                           LAMBDA p : table[p].k = KDefault
                                      /\ table[p].lambda = LambdaDefault)
    IN IF exact = <<>> THEN [present |-> FALSE]
       ELSE [present |-> TRUE, row |-> table[exact[1]], total |-> Len(table)]

\* The report's section 3: absent, or the first matching row.
ReferenceSection(table) ==
    LET default_config == DefaultConfigRows(table)
    IN IF default_config = <<>> THEN [present |-> FALSE]
       ELSE [present |-> TRUE, row |-> table[default_config[1]], total |-> Len(table)]

RECURSIVE SortValues(_, _)
\* self.data.sort_values('MeanMakespan'): the index labels (the 0-based
\* positions of the rows in the CSV) of the rows named in left, in
\* ascending order of MeanMakespan. Equal values, which the tables here do
\* not hold, keep their CSV order.
SortValues(table, left) ==
    IF left = {} THEN <<>>
    ELSE LET m == CHOOSE x \in left : \A y \in left :
                      \/ table[x + 1].MeanMakespan < table[y + 1].MeanMakespan
                      \/ /\ table[x + 1].MeanMakespan = table[y + 1].MeanMakespan
                         /\ x <= y
         IN <<m>> \o SortValues(table, left \ {m})

HeadCount == 5

\* The rows of the report's section 2: for (i, row) of
\* sorted_data.head(5).iterrows(), the first cell is i + 1, i being the
\* row's index label.
TopRows(table) ==
    LET sorted_data == SortValues(table, 0..(Len(table) - 1))
    IN [j \in 1..Min(HeadCount, Len(sorted_data)) |->
          [rank |-> sorted_data[j] + 1, row |-> table[sorted_data[j] + 1]]]

(***************************************************************************)
(* Exceptions under main's try: the handler prints and main returns, so    *)
(* the process ends with status 0.                                         *)
(***************************************************************************)
\* Mutant: one handler for every exception, without the hint.
HandlerPrints_noHint(type, hint) == {<<"error">>, <<"traceback">>}

HandlerPrints(type, hint) ==
    IF type = "FileNotFoundError" THEN {<<"error">>, <<"hint", hint>>}
    ELSE {<<"error">>, <<"traceback">>}

\* Mutant: the handler ends the process with sys.exit(1).
Caught_exit1(type, step, hint) ==
    /\ exc' = type
    /\ excAt' = step
    /\ pc' = "handled"
    /\ exitStatus' = "1"
    /\ printed' = printed \cup HandlerPrints(type, hint)

Caught(type, step, hint) ==
    /\ exc' = type
    /\ excAt' = step
    /\ pc' = "handled"
    /\ exitStatus' = "0"
    /\ printed' = printed \cup HandlerPrints(type, hint)

JavaHint == "run ParameterSensitivityTest.java"
SimpleHint == "ensure sensitivity_results_*.csv exists in results/"

(***************************************************************************)
(* plot_sensitivity.py: main, step by step.                                *)
(***************************************************************************)
\* Mutant: min instead of max.
LatestFiles_oldest(files) == { f \in files : \A g \in files : ctime[f] <= ctime[g] }

\* max(files, key=os.path.getctime): a file no other is newer than (the
\* first such in glob's order, which the file system chooses).
LatestFiles(files) == { f \in files : \A g \in files : ctime[g] <= ctime[f] }

\* SensitivityPlotter.__init__(data_file=argDataFile, output_dir="results")
SensitivityPlotter_init ==
    /\ script = "sensitivity" /\ pc = "construct"
    /\ outDirExists' = TRUE
    /\ IF argDataFile # NoFile
       THEN /\ data_file' = argDataFile
            /\ pc' = "load_data"
            /\ UNCHANGED <<printed, exc, excAt, exitStatus>>
       ELSE LET files == GlobSensitivity(sensDir) IN
            IF files = {}
            THEN /\ Caught("FileNotFoundError", "__init__", JavaHint)
                 /\ UNCHANGED data_file
            ELSE /\ data_file' \in LatestFiles(files)
                 /\ printed' = printed \cup {<<"auto_selected">>}
                 /\ pc' = "load_data"
                 /\ UNCHANGED <<exc, excAt, exitStatus>>
    /\ UNCHANGED <<inputs, envState, reads, convState, self_data, heatmap, report, i, outputs, content, openFigs>>

\* plotter.load_data(): pd.read_csv(self.data_file)
load_data ==
    /\ script = "sensitivity" /\ pc = "load_data"
    /\ IF data_file \in sensDir
       THEN /\ self_data' = Loaded(csvTable)
            /\ reads' = ReadFile(reads, data_file)
            /\ printed' = printed \cup {<<"loaded">>}
            /\ pc' = "heatmap"
            /\ i' = 1
            /\ UNCHANGED <<exc, excAt, exitStatus>>
       ELSE /\ Caught("FileNotFoundError", "load_data", JavaHint)
            /\ UNCHANGED <<self_data, i, reads>>
    /\ UNCHANGED <<inputs, envState, convState, data_file, heatmap, report, outDirExists,
                   outputs, content, openFigs>>

\* plot_all_metrics: plot_heatmap for the metric the sequence is at.
plot_heatmap ==
    /\ script = "sensitivity" /\ pc = "heatmap"
    /\ \E saved \in BOOLEAN :
        LET pivot_table == Pivot(self_data.rows, Metrics[i]) IN
        IF pivot_table.kind = "ValueError"
        THEN /\ Caught("ValueError", "plot_heatmap", JavaHint)
             /\ UNCHANGED <<heatmap, outputs, content, openFigs, i>>
        ELSE /\ heatmap' = [kind |-> "heatmap", metric |-> Metrics[i], pivot |-> pivot_table,
                            marker |-> _mark_default_config(pivot_table)]
             /\ IF saved
                THEN /\ Write(HeatmapFiles[i], 0, heatmap')
                     /\ printed' = printed \cup {<<"heatmap", Metrics[i]>>}
                     /\ i' = IF i = Len(Metrics) THEN 1 ELSE i + 1
                     /\ pc' = IF i = Len(Metrics) THEN "trends" ELSE "heatmap"
                     /\ UNCHANGED <<openFigs, exc, excAt, exitStatus>>
                ELSE /\ Caught("RenderError", "plot_heatmap", JavaHint)
                     /\ openFigs' = openFigs + 1
                     /\ UNCHANGED <<outputs, content, i>>
    /\ UNCHANGED <<inputs, envState, reads, convState, data_file, self_data, report, outDirExists>>

\* plotter.plot_parameter_trends()
plot_parameter_trends ==
    /\ script = "sensitivity" /\ pc = "trends"
    /\ \E saved \in BOOLEAN :
        IF saved
        THEN /\ Write("sensitivity_trends.png", 0, self_data.rows)
             /\ printed' = printed \cup {<<"trends">>}
             /\ pc' = "analysis_report"
             /\ UNCHANGED <<openFigs, exc, excAt, exitStatus>>
        ELSE /\ Caught("RenderError", "plot_parameter_trends", JavaHint)
             /\ openFigs' = openFigs + 1
             /\ UNCHANGED <<outputs, content, content>>
    /\ UNCHANGED <<inputs, envState, reads, convState, sensState, i, outDirExists>>

\* plotter.generate_analysis_report(); main's try block ends.
generate_analysis_report ==
    /\ script = "sensitivity" /\ pc = "analysis_report"
    /\ report' = [kind |-> "report", top |-> TopRows(self_data.rows),
                  reference |-> ReferenceSection(self_data.rows)]
    /\ Write("sensitivity_analysis_report.md", clock,
             [data_file |-> data_file, rows |-> report'])
    /\ printed' = printed \cup {<<"all_done">>}
    /\ pc' = "done"
    /\ exitStatus' = "0"
    /\ UNCHANGED <<inputs, envState, reads, convState, data_file, self_data, heatmap, i,
                   outDirExists, openFigs, exc, excAt>>

(***************************************************************************)
(* plot_sensitivity_simple.py: __main__, step by step.                     *)
(***************************************************************************)
SimpleCsv == <<"sensitivity_results_", "20251210_223839", ".csv">>
Langs == <<"en", "zh">>
SimplePng(lang) == <<"parameter_sensitivity_heatmap_", lang, ".png">>

\* plot_sensitivity_heatmap(csv_file, lang) for the language the script is at.
plot_sensitivity_heatmap ==
    /\ script = "simple" /\ pc = "simple_heatmap"
    /\ \E saved \in BOOLEAN :
        IF SimpleCsv \notin sensDir
        THEN /\ Caught("FileNotFoundError", "plot_sensitivity_heatmap", SimpleHint)
             /\ UNCHANGED <<self_data, heatmap, outputs, content, openFigs, i, reads>>
        ELSE LET pivot == Pivot(csvTable, "MeanMakespan") IN
             /\ self_data' = Loaded(csvTable)
             /\ reads' = ReadFile(reads, SimpleCsv)
             /\ IF pivot.kind = "ValueError"
                THEN /\ Caught("ValueError", "plot_sensitivity_heatmap", SimpleHint)
                     /\ UNCHANGED <<heatmap, outputs, content, openFigs, i>>
                ELSE /\ heatmap' = [kind |-> "heatmap", metric |-> "MeanMakespan",
                                    pivot |-> pivot,
                                    marker |-> [rect |-> FALSE, star |-> FALSE]]
                     /\ IF saved
                        THEN /\ Write(SimplePng(Langs[i]), 0, heatmap')
                             /\ printed' = printed \cup {<<"saved", Langs[i]>>}
                                              \cup (IF i = Len(Langs) THEN {<<"all_done">>} ELSE {})
                             /\ i' = IF i = Len(Langs) THEN 1 ELSE i + 1
                             /\ pc' = IF i = Len(Langs) THEN "done" ELSE "simple_heatmap"
                             /\ exitStatus' = IF i = Len(Langs) THEN "0" ELSE exitStatus
                             /\ UNCHANGED <<openFigs, exc, excAt>>
                        ELSE /\ Caught("RenderError", "plot_sensitivity_heatmap", SimpleHint)
                             /\ openFigs' = openFigs + 1
                             /\ UNCHANGED <<outputs, content, i>>
    /\ UNCHANGED <<inputs, envState, convState, data_file, report, outDirExists>>

(***************************************************************************)
(* plot_paper_figures.py: main, step by step.                              *)
(***************************************************************************)
PaperFigures ==
    <<"algorithm_ranking_comparison.png", "M2000_bar_chart.png",
      "icbo_improvement_rate.png", "heterogeneity_impact.png">>

\* plot_ranking_comparison, plot_m2000_bar_chart, plot_icbo_improvement_rate,
\* plot_heterogeneity_impact: the figure function main is at.
plot_paper_figure ==
    /\ script = "paper" /\ pc = "paper_figure"
    /\ \E saved \in BOOLEAN :
        IF ~outDirExists
        THEN /\ Uncaught("FileNotFoundError", PaperFigures[i])
             /\ printed' = printed \cup {<<"traceback">>}
             /\ openFigs' = openFigs + 1
             /\ UNCHANGED <<outputs, content, i>>
        ELSE IF saved
        THEN /\ Write(PaperFigures[i], 0, PaperFigures[i])
             /\ printed' = printed \cup {<<"saved", PaperFigures[i]>>}
                              \cup (IF i = Len(PaperFigures) THEN {<<"all_done">>} ELSE {})
             /\ i' = IF i = Len(PaperFigures) THEN 1 ELSE i + 1
             /\ pc' = IF i = Len(PaperFigures) THEN "done" ELSE "paper_figure"
             /\ exitStatus' = IF i = Len(PaperFigures) THEN "0" ELSE exitStatus
             /\ UNCHANGED <<openFigs, exc, excAt>>
        ELSE /\ Uncaught("RenderError", PaperFigures[i])
             /\ printed' = printed \cup {<<"traceback">>}
             /\ openFigs' = openFigs + 1
             /\ UNCHANGED <<outputs, content, i>>
    /\ UNCHANGED <<inputs, envState, reads, convState, sensState, outDirExists>>

(***************************************************************************)
(* Initial states: the script that runs and what it finds on disk.         *)
(***************************************************************************)
Common ==
    /\ i = 1
    /\ outputs = existing
    /\ printed = {}
    /\ openFigs = 0
    /\ exc = "none"
    /\ excAt = "none"
    /\ exitStatus = "running"
    /\ loadedFor = None
    /\ data = [kind |-> "unset"]
    /\ plotted = <<>>
    /\ report_lines = <<>>
    /\ data_file = NoFile
    /\ self_data = NoData
    /\ heatmap = [kind |-> "none"]
    /\ report = [kind |-> "none"]
    /\ reads = [f \in convDir \cup sensDir |-> 0]
    /\ content = [f \in existing |-> [run |-> 0, time |-> 0, body |-> <<>>]]
    /\ clock = 1
    /\ run = 1
    /\ firstRun = [ended |-> <<"no", "none", "none", 0>>, content |-> <<>>]

\* ConvergencePlotter(data_dir=".", output_dir="results") is constructed.
InitConvergence ==
    /\ script = "convergence"
    /\ pc = "single"
    /\ outDirExists = TRUE
    /\ \E K \in 1..NumIters : convDir \in SUBSET CandidateFiles(K)
    /\ sensDir = {}
    /\ ctime = <<>>
    /\ csvTable = <<>>
    /\ argDataFile = NoFile
    /\ existing = {}
    /\ Common

\* plot_sensitivity.py: either the directory and the data_file argument
\* vary over one table, or the table varies in a directory of one file.
InitSensitivity ==
    /\ script = "sensitivity"
    /\ pc = "construct"
    /\ outDirExists \in BOOLEAN
    /\ convDir = {}
    /\ \/ /\ sensDir \in SUBSET WorkingDirFiles
          /\ ctime \in [WorkingDirFiles -> 1..MaxCtime]
          /\ argDataFile \in {NoFile} \cup WorkingDirFiles
          /\ csvTable = DefaultTable
       \/ /\ sensDir = {SimpleCsv}
          /\ ctime = [f \in WorkingDirFiles |-> 1]
          /\ argDataFile = NoFile
          /\ csvTable \in Tables \cup LargeTables
    /\ existing \in IF outDirExists THEN {{}, SensitivityOutputs} ELSE {{}}
    /\ Common

InitSimple ==
    /\ script = "simple"
    /\ pc = "simple_heatmap"
    /\ sensDir \in {{}, {SimpleCsv}}
    /\ outDirExists \in { b \in BOOLEAN : sensDir # {} => b }
    /\ convDir = {}
    /\ ctime = [f \in WorkingDirFiles |-> 1]
    /\ argDataFile = NoFile
    /\ csvTable \in Tables
    /\ existing = {}
    /\ Common

InitPaper ==
    /\ script = "paper"
    /\ pc = "paper_figure"
    /\ outDirExists \in BOOLEAN
    /\ convDir = {}
    /\ sensDir = {}
    /\ ctime = <<>>
    /\ csvTable = <<>>
    /\ argDataFile = NoFile
    /\ existing = {}
    /\ Common

Init == InitConvergence \/ InitSensitivity \/ InitSimple \/ InitPaper

Next ==
    \/ plot_single_algorithm
    \/ plot_comparison_begin
    \/ plot_comparison_loop
    \/ plot_comparison_save
    \/ generate_convergence_report_begin
    \/ generate_convergence_report_loop
    \/ generate_convergence_report_write
    \/ SensitivityPlotter_init
    \/ load_data
    \/ plot_heatmap
    \/ plot_parameter_trends
    \/ generate_analysis_report
    \/ plot_sensitivity_heatmap
    \/ plot_paper_figure

Spec == Init /\ [][Next]_vars

(***************************************************************************)
(* The script is run a second time, on the same inputs and the output      *)
(* directory the first run left.                                           *)
(***************************************************************************)
MaxClock == 2

\* Where each script's __main__ begins.
StartOf(sc) ==
    CASE sc = "convergence" -> "single"
      [] sc = "sensitivity" -> "construct"
      [] sc = "simple" -> "simple_heatmap"
      [] sc = "paper" -> "paper_figure"

\* How the run ended: where, with which exception, raised by which step.
Ending == <<pc, exc, excAt, i>>

\* The process has ended; a new process starts, at the same second or
\* later. Nothing of the first process is left but the files it wrote.
rerun ==
    /\ run = 1
    /\ pc \in {"done", "handled", "terminated"}
    /\ firstRun' = [ended |-> Ending, content |-> content]
    /\ run' = 2
    /\ clock' \in clock..MaxClock
    /\ pc' = StartOf(script)
    /\ i' = 1
    /\ printed' = {}
    /\ openFigs' = 0
    /\ exc' = "none"
    /\ excAt' = "none"
    /\ exitStatus' = "running"
    /\ loadedFor' = None
    /\ data' = [kind |-> "unset"]
    /\ plotted' = <<>>
    /\ report_lines' = <<>>
    /\ data_file' = NoFile
    /\ self_data' = NoData
    /\ heatmap' = [kind |-> "none"]
    /\ report' = [kind |-> "none"]
    /\ reads' = [f \in DOMAIN reads |-> 0]
    /\ UNCHANGED <<inputs, outDirExists, outputs, content>>

NextRerun == Next \/ rerun

\* The inputs of the two-run behaviours: every script, run as its main
\* runs it (no data_file argument); the convergence files named by a
\* number, of runs of NumIters iterations; the sensitivity directory in all
\* its forms; the tables of at most two rows beside the default and the
\* wide ones.
InitRerun ==
    /\ Init
    /\ argDataFile = NoFile
    /\ \A f \in convDir : PyInt(SeedText(f.stem)).ok /\ Len(f.rows) = NumIters
    /\ Len(csvTable) <= 2 \/ csvTable \in {DefaultTable} \cup LargeTables

SpecRerun == InitRerun /\ [][NextRerun]_vars

(***************************************************************************)
(* What the inputs are, stated apart from the code's own text handling.    *)
(***************************************************************************)
\* What each of SeedSuffixes names: the number after its last "seed".
NamedSeeds ==
    << [number |-> TRUE, val |-> 42], [number |-> TRUE, val |-> 7],
       [number |-> FALSE, val |-> 0] >>

SuffixIndex(f, algorithm) ==
    CHOOSE s \in 1..Len(SeedSuffixes) :
        f.stem = PatternPrefix(algorithm, scale) \o SeedSuffixes[s]

\* The seed files the directory holds for an algorithm.
FilesOf(algorithm) ==
    { f \in convDir : \E s \in 1..Len(SeedSuffixes) :
        f.stem = PatternPrefix(algorithm, scale) \o SeedSuffixes[s] }

HasFiles(algorithm) == FilesOf(algorithm) # {}

\* K: the number of rows of each file of the directory (0 in an empty one).
RowsPerFile == IF convDir = {} THEN 0 ELSE Len((CHOOSE f \in convDir : TRUE).rows)
WithFiles(algs) == SelectSeq(algs, HasFiles)

\* The first cell of each row of the convergence report.
RowAlgorithms(lines) == [p \in 1..Len(lines) |-> lines[p].algorithm]

\* The sensitivity CSV files of the working directory.
Matching == sensDir \cap SensitivityFiles

InputMissing ==
    IF argDataFile = NoFile THEN Matching = {} ELSE argDataFile \notin sensDir

Lambdas(table) == { table[p].lambda : p \in 1..Len(table) }
Ks(table) == { table[p].k : p \in 1..Len(table) }
HasDuplicatePair(table) ==
    \E a, b \in 1..Len(table) :
        a # b /\ table[a].lambda = table[b].lambda /\ table[a].k = table[b].k

(***************************************************************************)
(* C1: when load_convergence_data finds N >= 1 seed files of K rows each   *)
(* (all named by a number), it returns a table of N*K rows, each row       *)
(* carrying the rows of its file and, in Seed, the number after the last   *)
(* "seed" of that file's stem.                                             *)
(***************************************************************************)
C1_LoadedTable ==
    (script = "convergence" /\ loadedFor # None) =>
        LET found == FilesOf(loadedFor) IN
        (found # {} /\ \A f \in found : NamedSeeds[SuffixIndex(f, loadedFor)].number) =>
            /\ data.kind = "table"
            /\ Len(data.rows) = Cardinality(found) * RowsPerFile
            /\ \E order \in Orderings(found) :
                  \A n \in 1..Cardinality(found), r \in 1..RowsPerFile :
                      data.rows[(n - 1) * RowsPerFile + r] =
                          [Iteration |-> order[n].rows[r].Iteration,
                           BestFitness |-> order[n].rows[r].BestFitness,
                           Seed |-> NamedSeeds[SuffixIndex(order[n], loadedFor)].val]

C1_Witness ==
    /\ script = "convergence"
    /\ data.kind = "table"
    /\ data.nfiles = 2
    /\ RowsPerFile = 2
    /\ Len(data.rows) = 4
    /\ \E r \in 1..Len(data.rows) : data.rows[r].Seed = 7
    /\ \E r \in 1..Len(data.rows) : data.rows[r].Seed = 42

(***************************************************************************)
(* C2: missing files are never fatal in the convergence script: an         *)
(* algorithm without files gets no individual image and raises nothing,    *)
(* and plot_comparison draws exactly the algorithms that have files, in    *)
(* list order, and writes the comparison image.                            *)
(***************************************************************************)
C2_MissingFilesNotFatal ==
    script = "convergence" =>
        /\ \A a \in 1..Len(algorithms) :
              IndividualPng(algorithms[a], scale) \in outputs => HasFiles(algorithms[a])
        /\ exc \in {"none", "ValueError", "RenderError"}
        /\ exc = "ValueError" =>
              \E f \in FilesOf(loadedFor) : ~NamedSeeds[SuffixIndex(f, loadedFor)].number
        /\ (exc = "RenderError" /\ excAt = "plot_single_algorithm") => HasFiles(loadedFor)
        /\ pc = "comparison_loop" => plotted = WithFiles(SubSeq(algorithms, 1, i - 1))
        /\ pc \in {"comparison_save", "report", "report_loop", "report_write", "done"} =>
              plotted = WithFiles(algorithms)
        /\ pc \in {"report", "report_loop", "report_write", "done"} =>
              ComparisonPng(scale) \in outputs

C2_Witness ==
    /\ script = "convergence"
    /\ pc = "report"
    /\ ~HasFiles(algorithms[1])
    /\ IndividualPng(algorithms[1], scale) \notin outputs
    /\ plotted = <<algorithms[2]>>
    /\ ComparisonPng(scale) \in outputs

(***************************************************************************)
(* C3: generate_convergence_report writes one row per listed algorithm     *)
(* that has data, in list order, none for an algorithm without data, and   *)
(* the report file is written whenever the report is generated.            *)
(***************************************************************************)
C3_ReportRows ==
    script = "convergence" =>
        /\ pc = "report_loop" =>
              RowAlgorithms(report_lines) = WithFiles(SubSeq(algorithms, 1, i - 1))
        /\ pc \in {"report_write", "done"} =>
              RowAlgorithms(report_lines) = WithFiles(algorithms)
        /\ pc = "done" => ReportMd(scale) \in outputs
        /\ excAt # "generate_convergence_report"

C3_Witness ==
    /\ script = "convergence"
    /\ pc = "done"
    /\ ~HasFiles(algorithms[1])
    /\ RowAlgorithms(report_lines) = <<algorithms[2]>>
    /\ ReportMd(scale) \in outputs

(***************************************************************************)
(* C4: without a data file SensitivityPlotter takes, among the files       *)
(* matching sensitivity_results_*.csv, one with the latest creation time,  *)
(* and raises FileNotFoundError when none matches; a data file passed      *)
(* explicitly is used unchanged, without discovery.                        *)
(***************************************************************************)
C4_Discovery ==
    (script = "sensitivity" /\ pc # "construct") =>
        IF argDataFile # NoFile
        THEN /\ data_file = argDataFile
             /\ <<"auto_selected">> \notin printed
             /\ excAt # "__init__"
        ELSE IF Matching = {}
        THEN /\ exc = "FileNotFoundError"
             /\ excAt = "__init__"
             /\ data_file = NoFile
        ELSE /\ data_file \in Matching
             /\ \A g \in Matching : ctime[g] <= ctime[data_file]

C4_Witness ==
    /\ script = "sensitivity"
    /\ pc = "load_data"
    /\ argDataFile = NoFile
    /\ OtherFile \in sensDir
    /\ ctime[OtherFile] >= ctime[data_file]
    /\ \E g \in Matching : ctime[g] < ctime[data_file]

(***************************************************************************)
(* C5, as amended: the reference configuration of the report is the first  *)
(* row with k == 3 and lambda in the closed window [0.39, 0.41], both ends *)
(* included; a table with a (k=3, lambda=0.41) row and no k == 3 row whose *)
(* lambda is at least 0.39 and below 0.41 resolves to its first            *)
(* (k=3, lambda=0.41) row; without a row in the window no reference        *)
(* section is written.                                                     *)
(***************************************************************************)
C5_ReferenceClosedWindow ==
    (script = "sensitivity" /\ report.kind = "report") =>
        LET m == { p \in 1..Len(csvTable) :
                     /\ csvTable[p].k = 3
                     /\ 39 <= csvTable[p].lambda /\ csvTable[p].lambda <= 41 }
            upper == { p \in 1..Len(csvTable) :
                         csvTable[p].k = 3 /\ csvTable[p].lambda = 41 }
            below == { p \in 1..Len(csvTable) :
                         /\ csvTable[p].k = 3
                         /\ 39 <= csvTable[p].lambda /\ csvTable[p].lambda < 41 }
        IN /\ IF m = {} THEN ~report.reference.present
              ELSE /\ report.reference.present
                   /\ report.reference.row
                         = csvTable[CHOOSE p \in m : \A q \in m : p <= q]
           /\ (upper # {} /\ below = {}) =>
                 /\ report.reference.present
                 /\ report.reference.row
                       = csvTable[CHOOSE p \in upper : \A q \in upper : p <= q]

\* The only k == 3 row of the window is a 0.41 row, after a k == 3 row
\* outside the window, and the section reports it.
C5_Witness ==
    /\ script = "sensitivity"
    /\ report.kind = "report"
    /\ \A p \in 1..Len(csvTable) : csvTable[p].k = 3 => csvTable[p].lambda \notin {39, 40}
    /\ \E p, q \in 1..Len(csvTable) :
          /\ p < q
          /\ csvTable[p].k = 3 /\ csvTable[p].lambda = 42
          /\ csvTable[q].k = 3 /\ csvTable[q].lambda = 41
    /\ report.reference.present
    /\ report.reference.row.lambda = 41

\* C5 as stated: the window is half-open. It has to hold 0.41, which the
\* claim says resolves, so the end left out is 0.39.
C5_ReferenceHalfOpenWindow ==
    (script = "sensitivity" /\ report.kind = "report") =>
        LET m == { p \in 1..Len(csvTable) :
                     /\ csvTable[p].k = 3
                     /\ 39 < csvTable[p].lambda /\ csvTable[p].lambda <= 41 }
        IN IF m = {} THEN ~report.reference.present
           ELSE /\ report.reference.present
                /\ report.reference.row = csvTable[CHOOSE p \in m : \A q \in m : p <= q]

(***************************************************************************)
(* C6: the pivot of a heatmap has one row per distinct lambda and one      *)
(* column per distinct k of the table, the cell of each pair of the table  *)
(* holding that pair's metric; a table with a repeated (k, lambda) pair    *)
(* fails with ValueError and no heatmap is drawn from it.                  *)
(***************************************************************************)
C6_Pivot ==
    script \in {"sensitivity", "simple"} =>
        /\ heatmap.kind = "heatmap" =>
              /\ ~HasDuplicatePair(csvTable)
              /\ Range(heatmap.pivot.index) = Lambdas(csvTable)
              /\ Len(heatmap.pivot.index) = Cardinality(Lambdas(csvTable))
              /\ Range(heatmap.pivot.columns) = Ks(csvTable)
              /\ Len(heatmap.pivot.columns) = Cardinality(Ks(csvTable))
              /\ DOMAIN heatmap.pivot.cells = Lambdas(csvTable) \X Ks(csvTable)
              /\ \A p \in 1..Len(csvTable) :
                    heatmap.pivot.cells[<<csvTable[p].lambda, csvTable[p].k>>]
                        = {csvTable[p][heatmap.metric]}
        /\ HasDuplicatePair(csvTable) =>
              /\ heatmap.kind = "none"
              /\ pc \notin {"trends", "analysis_report", "done"}
              /\ (self_data.loaded /\ pc \notin {"heatmap", "simple_heatmap"}) =>
                    exc = "ValueError"

C6_Witness ==
    /\ script = "sensitivity"
    /\ heatmap.kind = "heatmap"
    /\ Len(csvTable) = 3
    /\ Len(heatmap.pivot.index) = 2
    /\ Len(heatmap.pivot.columns) = 2
    /\ \E c \in DOMAIN heatmap.pivot.cells : heatmap.pivot.cells[c] = {}

(***************************************************************************)
(* C7: the marker is drawn on the cell of column k = 3 and row             *)
(* lambda = 0.4, found by equality; when k = 3 or lambda = 0.4 is not in   *)
(* the pivot neither the rectangle nor the star is drawn, nothing is       *)
(* raised, and plot_heatmap goes on to save the image.                     *)
(***************************************************************************)
C7_Marker ==
    script = "sensitivity" =>
        /\ heatmap.kind = "heatmap" =>
              LET there == 3 \in Ks(csvTable) /\ 40 \in Lambdas(csvTable) IN
              /\ heatmap.marker.rect = there
              /\ heatmap.marker.star = there
              /\ there =>
                    /\ heatmap.marker.k_index
                          = Cardinality({ k \in Ks(csvTable) : k < 3 })
                    /\ heatmap.marker.lambda_index
                          = Cardinality({ l \in Lambdas(csvTable) : l < 40 })
        /\ excAt = "plot_heatmap" =>
              \/ exc = "RenderError"
              \/ exc = "ValueError" /\ HasDuplicatePair(csvTable)

C7_Witness ==
    /\ script = "sensitivity"
    /\ existing = {}
    /\ heatmap.kind = "heatmap"
    /\ 40 \in Lambdas(csvTable)
    /\ 3 \notin Ks(csvTable)
    /\ ~heatmap.marker.rect
    /\ ~heatmap.marker.star
    /\ HeatmapFiles[1] \in outputs
    /\ exc = "none"

(***************************************************************************)
(* C8: when the input file of plot_sensitivity.py is missing, main prints  *)
(* the error and the hint about ParameterSensitivityTest.java and ends     *)
(* early: no step after the failure writes an image or the report, and     *)
(* what the output directory held is left as it was.                       *)
(***************************************************************************)
C8_MissingInput ==
    script = "sensitivity" =>
        /\ exc = "FileNotFoundError" =>
              /\ InputMissing
              /\ pc = "handled"
              /\ {<<"error">>, <<"hint", JavaHint>>} \subseteq printed
              /\ <<"all_done">> \notin printed
              /\ outputs = existing
              /\ heatmap.kind = "none"
              /\ report.kind = "none"
        /\ (InputMissing /\ pc \notin {"construct", "load_data"}) =>
              exc = "FileNotFoundError"

C8_Witness ==
    /\ script = "sensitivity"
    /\ exc = "FileNotFoundError"
    /\ excAt = "load_data"
    /\ existing # {}
    /\ outputs = existing

(***************************************************************************)
(* C9, as amended: an exception other than a missing input file raised     *)
(* during plot or report generation in plot_sensitivity.py is caught by    *)
(* main, which prints the error and the traceback and returns: the         *)
(* process ends with exit status 0.                                        *)
(***************************************************************************)
C9_CaughtAndExitZero ==
    (script = "sensitivity" /\ exc \notin {"none", "FileNotFoundError"}) =>
        /\ pc = "handled"
        /\ {<<"error">>, <<"traceback">>} \subseteq printed
        /\ <<"all_done">> \notin printed
        /\ exitStatus = "0"

C9_Witness ==
    /\ script = "sensitivity"
    /\ exc = "ValueError"
    /\ excAt = "plot_heatmap"
    /\ pc = "handled"
    /\ exitStatus = "0"

\* C9 as stated: the process exits with a non-zero status.
C9_ExitsNonZero ==
    (script = "sensitivity" /\ exc \notin {"none", "FileNotFoundError"}) =>
        /\ pc = "handled"
        /\ {<<"error">>, <<"traceback">>} \subseteq printed
        /\ exitStatus \notin {"running", "0"}

(***************************************************************************)
(* C10, as amended: plot_convergence.py and plot_paper_figures.py let an   *)
(* exception other than a missing file propagate uncaught (traceback, exit *)
(* status 1); plot_sensitivity_simple.py catches it at its outermost       *)
(* level, as plot_sensitivity.py does, prints the traceback and ends with  *)
(* status 0. In all of them no later step of the script runs.              *)
(***************************************************************************)
FigureIndex(name) == CHOOSE n \in 1..Len(PaperFigures) : PaperFigures[n] = name

C10_OtherScripts ==
    exc \notin {"none", "FileNotFoundError"} =>
        /\ script \in {"convergence", "paper"} =>
              /\ pc = "terminated"
              /\ exitStatus = "1"
              /\ <<"traceback">> \in printed
        /\ script \in {"simple", "sensitivity"} =>
              /\ pc = "handled"
              /\ exitStatus = "0"
              /\ <<"traceback">> \in printed
        /\ <<"all_done">> \notin printed
        /\ script = "convergence" => ReportMd(scale) \notin outputs
        /\ script = "paper" =>
              \A n \in FigureIndex(excAt)..Len(PaperFigures) : PaperFigures[n] \notin outputs
        /\ script = "simple" => SimplePng(Langs[Len(Langs)]) \notin outputs

C10_Witness ==
    /\ script = "simple"
    /\ exc = "RenderError"
    /\ pc = "handled"
    /\ exitStatus = "0"
    /\ SimplePng(Langs[1]) \in outputs

\* C10 as stated: in each of the three other scripts the exception
\* propagates uncaught and ends the process.
C10_AllPropagate ==
    (script \in {"convergence", "paper", "simple"}
        /\ exc \notin {"none", "FileNotFoundError"}) =>
            /\ pc = "terminated"
            /\ exitStatus = "1"

(***************************************************************************)
(* The convergence report's figures, from the files themselves: with N     *)
(* seed files, the mean at a row position is the sum over the files        *)
(* divided by N, and N cancels in every ratio of differences of means.     *)
(***************************************************************************)
RECURSIVE SumAt(_, _)
\* The sum, over a set of files, of BestFitness at row position r.
SumAt(S, r) ==
    IF S = {} THEN 0
    ELSE LET f == CHOOSE g \in S : TRUE
         IN f.rows[r].BestFitness + SumAt(S \ {f}, r)

Abs(x) == IF x < 0 THEN 0 - x ELSE x

\* h hundredths is a nearest two-decimal value of num / den (den # 0).
Nearest(h, num, den) == 2 * Abs(h * den - 100 * num) <= Abs(den)

(***************************************************************************)
(* C11: every row of the convergence report shows, as total improvement,   *)
(* (initial - final) / initial * 100 to two decimals, initial and final    *)
(* being the across-seed means at the smallest and the largest Iteration;  *)
(* initial 100 and final 80 show 20.00%.                                   *)
(***************************************************************************)
C11_TotalImprovement ==
    script = "convergence" =>
        \A p \in 1..Len(report_lines) :
            LET row == report_lines[p]
                S == FilesOf(row.algorithm)
                I == SumAt(S, 1)
                F == SumAt(S, RowsPerFile)
            IN /\ row.initial.text = "num"
               /\ Nearest(row.initial.hundredths, I, Cardinality(S))
               /\ row.final.text = "num"
               /\ Nearest(row.final.hundredths, F, Cardinality(S))
               /\ row.improvement.text = "num"
               /\ Nearest(row.improvement.hundredths, 100 * (I - F), I)
               /\ (row.initial.hundredths = 10000 /\ row.final.hundredths = 8000) =>
                     row.improvement.hundredths = 2000

C11_Witness ==
    /\ script = "convergence"
    /\ pc = "done"
    /\ \E p \in 1..Len(report_lines) :
          /\ report_lines[p].initial.hundredths = 10000
          /\ report_lines[p].final.hundredths = 8000
          /\ report_lines[p].improvement = [text |-> "num", hundredths |-> 2000, minus |-> FALSE]
    /\ \E p \in 1..Len(report_lines) :
          /\ Cardinality(FilesOf(report_lines[p].algorithm)) = 2
          /\ report_lines[p].improvement = [text |-> "num", hundredths |-> 1538, minus |-> FALSE]

(***************************************************************************)
(* C12: for a row over K iterations with initial # final, the convergence  *)
(* speed is (initial - m) / (initial - final) * 100 to two decimals, m     *)
(* being the across-seed mean at position floor(K/2), counted from 0 in    *)
(* ascending Iteration order; it is 100% when m equals the final mean.     *)
(***************************************************************************)
C12_ConvergenceSpeed ==
    script = "convergence" =>
        \A p \in 1..Len(report_lines) :
            LET row == report_lines[p]
                S == FilesOf(row.algorithm)
                I == SumAt(S, 1)
                F == SumAt(S, RowsPerFile)
                M == SumAt(S, (RowsPerFile \div 2) + 1)
            IN I # F =>
                 /\ row.half_improvement.text = "num"
                 /\ Nearest(row.half_improvement.hundredths, 100 * (I - M), I - F)
                 /\ M = F => row.half_improvement.hundredths = 10000

C12_Witness ==
    /\ script = "convergence"
    /\ pc = "done"
    /\ RowsPerFile = 3
    /\ \E p \in 1..Len(report_lines) :
          report_lines[p].half_improvement = [text |-> "num", hundredths |-> 5000, minus |-> FALSE]
    /\ \E p \in 1..Len(report_lines) :
          report_lines[p].half_improvement = [text |-> "num", hundredths |-> 10000, minus |-> FALSE]

(***************************************************************************)
(* C14: generate_convergence_report does not guard initial == final: an    *)
(* algorithm whose first and last means are equal (every single-iteration  *)
(* data set among them) still gets its row, nothing is raised, and the     *)
(* speed cell holds the outcome of the division by zero: nan, or an        *)
(* infinity.                                                               *)
(***************************************************************************)
C14_UnguardedDivision ==
    (script = "convergence" /\ pc \in {"report_write", "done"}) =>
        \A a \in 1..Len(algorithms) :
            LET S == FilesOf(algorithms[a])
                I == SumAt(S, 1)
                F == SumAt(S, RowsPerFile)
                M == SumAt(S, (RowsPerFile \div 2) + 1)
            IN (S # {} /\ I = F) =>
                 \E p \in 1..Len(report_lines) :
                    /\ report_lines[p].algorithm = algorithms[a]
                    /\ report_lines[p].half_improvement.text =
                          IF I = M THEN "nan" ELSE IF I > M THEN "inf" ELSE "-inf"
                    /\ report_lines[p].improvement = [text |-> "num", hundredths |-> 0, minus |-> FALSE]

C14_Witness ==
    /\ script = "convergence"
    /\ pc = "done"
    /\ exc = "none"
    /\ RowsPerFile = 3
    /\ \E p \in 1..Len(report_lines) : report_lines[p].half_improvement.text = "nan"
    /\ \E p \in 1..Len(report_lines) : report_lines[p].half_improvement.text = "num"

(***************************************************************************)
(* C15: the top-5 table of generate_analysis_report has min(5, n) rows     *)
(* for a table of n configurations, they are the configurations of lowest  *)
(* MeanMakespan in ascending order, and the rank cell of the j-th row is   *)
(* j, whatever the order of the rows in the CSV.                           *)
(***************************************************************************)
C15_TopFiveRanked ==
    (script = "sensitivity" /\ report.kind = "report") =>
        LET n == Len(csvTable)
            shown == { report.top[j].row : j \in 1..Len(report.top) }
        IN /\ Len(report.top) = IF n < 5 THEN n ELSE 5
           /\ \A j \in 1..(Len(report.top) - 1) :
                 report.top[j].row.MeanMakespan <= report.top[j + 1].row.MeanMakespan
           /\ \A p \in 1..n :
                 csvTable[p] \notin shown =>
                    \A j \in 1..Len(report.top) :
                        report.top[j].row.MeanMakespan <= csvTable[p].MeanMakespan
           /\ shown \subseteq Range(csvTable)
           /\ \A j \in 1..Len(report.top) : report.top[j].rank = j

(***************************************************************************)
(* C16, as amended: plot_sensitivity.py reads the CSV it selected exactly  *)
(* once per invocation and no other file. plot_convergence.py reads        *)
(* every seed file of a listed algorithm once in each of its three steps   *)
(* (individual plots, comparison plot, report), three times in a run that  *)
(* completes; plot_sensitivity_simple.py reads its CSV once per language,  *)
(* twice in a run that completes.                                          *)
(***************************************************************************)
C16_ReadsPerInvocation ==
    /\ script = "sensitivity" =>
          \A f \in DOMAIN reads :
              reads[f] = IF self_data.loaded /\ f = data_file THEN 1 ELSE 0
    /\ script = "convergence" =>
          /\ \A f \in DOMAIN reads : reads[f] <= 3
          /\ pc \in {"comparison", "comparison_loop"} =>
                \A f \in DOMAIN reads : reads[f] >= 1
          /\ pc \in {"comparison_save", "report", "report_loop"} =>
                \A f \in DOMAIN reads : reads[f] >= 2
          /\ pc \in {"report_write", "done"} => \A f \in DOMAIN reads : reads[f] = 3
    /\ script = "simple" =>
          /\ \A f \in DOMAIN reads : reads[f] <= 2
          /\ pc = "done" => reads[SimpleCsv] = 2
    /\ script = "paper" => DOMAIN reads = {}

C16_Witness ==
    /\ script = "convergence"
    /\ pc = "done"
    /\ Cardinality(convDir) >= 3
    /\ \A f \in convDir : reads[f] = 3

\* C16 as stated: no file is read a second time within one invocation.
C16_ReadOnce ==
    \A f \in DOMAIN reads : reads[f] <= 1

(***************************************************************************)
(* C17: every figure a plotting function creates is closed before the      *)
(* function is left, on every path, a failure raised while rendering or    *)
(* saving included: outside plot_comparison's own steps, no figure         *)
(* created by the calls made so far is still open.                         *)
(***************************************************************************)
C17_FiguresReleased ==
    pc \notin {"comparison_loop", "comparison_save"} => openFigs = 0

(***************************************************************************)
(* C18, as amended: the heatmap and the report agree on the reference      *)
(* configuration when the table holds the row (k=3, lambda=0.4), where     *)
(* both show it, and when it holds no row with k = 3, where neither does.  *)
(* Otherwise they need not: the marker is drawn exactly when 3 is among    *)
(* the k values and 0.4 among the lambda values of the table, the section  *)
(* is written exactly when some row has k = 3 and lambda within            *)
(* [0.39, 0.41].                                                           *)
(***************************************************************************)
C18_MarkerAndReference ==
    (script = "sensitivity" /\ heatmap.kind = "heatmap" /\ report.kind = "report") =>
        LET pairs == { <<csvTable[p].k, csvTable[p].lambda>> : p \in 1..Len(csvTable) }
            marked == heatmap.marker.rect /\ heatmap.marker.star
            unmarked == ~heatmap.marker.rect /\ ~heatmap.marker.star
        IN /\ <<3, 40>> \in pairs => marked /\ report.reference.present
           /\ (\A q \in pairs : q[1] # 3) => unmarked /\ ~report.reference.present
           /\ marked \/ unmarked
           /\ marked <=> (\E q \in pairs : q[1] = 3) /\ (\E q \in pairs : q[2] = 40)
           /\ report.reference.present <=>
                 \E q \in pairs : q[1] = 3 /\ q[2] \in 39..41

C18_Witness ==
    /\ script = "sensitivity"
    /\ pc = "done"
    /\ \E p \in 1..Len(csvTable) : csvTable[p].k = 3 /\ csvTable[p].lambda = 40
    /\ Len(csvTable) >= 2
    /\ heatmap.marker.rect
    /\ heatmap.marker.star
    /\ report.reference.present
    /\ report.reference.row.lambda = 40

\* C18 as stated: the marker is drawn if and only if the reference section
\* is written.
C18_MarkerIffReference ==
    (script = "sensitivity" /\ heatmap.kind = "heatmap" /\ report.kind = "report") =>
        (heatmap.marker.rect <=> report.reference.present)

(***************************************************************************)
(* Two runs on unchanged inputs. Unchanged inputs include what discovery   *)
(* finds: where two sensitivity files tie for the latest creation time,    *)
(* the one taken follows the order glob lists them in.                     *)
(***************************************************************************)
UniqueLatest == argDataFile # NoFile \/ Cardinality(LatestFiles(Matching)) <= 1

\* The second run has ended, and ended as the first did.
BothRunsEnded ==
    /\ run = 2
    /\ pc \in {"done", "handled", "terminated"}
    /\ firstRun.ended = Ending
    /\ UniqueLatest

(***************************************************************************)
(* C13, as amended: after a second run on unchanged inputs that ends as    *)
(* the first did, the output directory holds the same set of files, every  *)
(* file the first run wrote has been overwritten, and each file holds what *)
(* it held after the first run, except for the generation time stated in   *)
(* the two Markdown reports, which is the time of the second run.          *)
(***************************************************************************)
C13_RerunSameButTime ==
    BothRunsEnded =>
        /\ DOMAIN content = DOMAIN firstRun.content
        /\ \A f \in DOMAIN content :
              /\ content[f].run # 1
              /\ firstRun.content[f].run = 1 <=> content[f].run = 2
              /\ content[f].body = firstRun.content[f].body
              /\ content[f].time >= firstRun.content[f].time
              /\ content[f].time # firstRun.content[f].time =>
                    /\ content[f].time = clock
                    /\ \/ script = "convergence" /\ f = ReportMd(scale)
                       \/ script = "sensitivity" /\ f = "sensitivity_analysis_report.md"

C13_Witness ==
    /\ script = "convergence"
    /\ run = 2
    /\ pc = "done"
    /\ firstRun.ended = Ending
    /\ Len(report_lines) = 2
    /\ DOMAIN content = DOMAIN firstRun.content
    /\ Cardinality(DOMAIN content) = 4
    /\ content[ReportMd(scale)].body = firstRun.content[ReportMd(scale)].body
    /\ content[ReportMd(scale)].time > firstRun.content[ReportMd(scale)].time
    /\ content[ComparisonPng(scale)].run = 2

\* C13 as stated: after the second run every file holds exactly what it
\* held after the first.
C13_RerunSameContent ==
    BothRunsEnded =>
        /\ DOMAIN content = DOMAIN firstRun.content
        /\ \A f \in DOMAIN content :
              /\ content[f].run # 1
              /\ content[f].body = firstRun.content[f].body
              /\ content[f].time = firstRun.content[f].time

====
